---- MODULE Spec2Model ----
(***************************************************************************)
(* Xero integration subsystem of the Offlode back end: OAuth connection    *)
(* lifecycle, access-token refresh on demand, transaction upsert and the   *)
(* rule-based exclusion engine.                                            *)
(*                                                                         *)
(* Requests run in separate worker processes (config.py workers = 4), each *)
(* with its own SQLAlchemy session (database.py get_db), so every SQL      *)
(* statement and every awaited provider call is an interleaving point.     *)
(***************************************************************************)
EXTENDS Integers, Sequences, FiniteSets, TLC

\* ------------------------------------------------------------------ bounds
MaxTime == 2
MaxTokens == 2
MaxStates == 2
MaxBatch == 2
MaxRules == 2
MaxClients == 2
MaxAssignments == 3

\* ------------------------------------------------------- program constants
\* token_manager.py:29  timedelta(minutes=2)
RefreshMargin == 2
\* api/auth/xero.py:46  timedelta(minutes=15)
StateTTL == 15

\* ------------------------------------------------------------------ inputs
None == "None"
Orgs == {"o1", "o2"}
\* users as the actor resolver returns them: id, organization_id, role
Users == {
  [id |-> "u1", organization_id |-> "o1", role |-> "owner"],
  [id |-> "u2", organization_id |-> "o2", role |-> "admin"],
  [id |-> "u3", organization_id |-> "o1", role |-> "team_member"] }
Procs == {1, 2}
Callbacks == {1, 2}
\* concurrent requests of the client and assignment endpoints
Requests == {1, 2}
\* expires_in values (minutes) the provider may answer with
ExpiresIn == {2, 3}
\* tenant lists the provider's connections endpoint may answer with
Tenant(n) == [tenantId |-> n, tenantName |-> n]
TenantLists == { <<>>, <<Tenant("t1")>>, <<Tenant("t2"), Tenant("t1")>> }
\* Fernet draws a fresh IV for every encryption
IVs == {0}

VARIABLES
  now,               \* datetime.utcnow(), in minutes
  xero_connections,  \* table xero_connections, rows in insertion order
  oauth_states,      \* the state store (store_oauth_state / consume_oauth_state)
  state_counter,     \* number of state tokens generated so far
  provider,          \* the identity provider: valid refresh tokens, pairs issued
  accepted,          \* per state value: callbacks that got past consumption
  tm,                \* get_valid_access_token calls, one per process
  cb,                \* xero_callback requests, one per process
  response,          \* what the request that finished last returned or raised
  transactions,      \* table transactions
  exclusion_rules,   \* table exclusion_rules, rows in storage order
  call,              \* a call of a pure function: its arguments and its result
  clients,           \* table clients, rows in insertion order
  client_assignments,\* table client_assignments, rows in insertion order
  rq                 \* client and assignment requests, one per process

vars == <<now, xero_connections, oauth_states, state_counter, provider,
          accepted, tm, cb, response, transactions, exclusion_rules, call,
          clients, client_assignments, rq>>

\* the tables of the transaction sync
syncVars == <<transactions, exclusion_rules>>
\* the tables and requests of the assignment bookkeeping
assignVars == <<clients, client_assignments, rq>>
\* the state of the OAuth connection lifecycle
xeroVars == <<now, xero_connections, oauth_states, state_counter, provider,
              accepted, tm, cb>>

\* ------------------------------------------------------------ token cipher
\* token_crypto.py _get_fernet: one key derived from the application secret
_get_fernet == "sha256(jwt_secret_key)"
Hmac(key, iv, body) == <<key, iv, body>>
NoToken == <<"none", 0>>
CryptoError == <<"InvalidToken", 0>>
NoCipher == [iv |-> 0, body |-> NoToken, hmac |-> Hmac("", 0, NoToken), pad |-> 0]

\* token_crypto.py encrypt_token: Fernet token = IV, ciphertext, HMAC, as
\* urlsafe base64 text. pad stands for what the text holds beyond the encoded
\* bytes (characters outside the alphabet, spare bits of the last character);
\* Fernet.encrypt writes the canonical text, pad = 0
encrypt_token(token, iv) ==
  [iv |-> iv, body |-> token, hmac |-> Hmac(_get_fernet, iv, token), pad |-> 0]

\* token_crypto.py decrypt_token: Fernet.decrypt decodes the text with
\* base64.urlsafe_b64decode, which discards what pad stands for, verifies the
\* HMAC over the decoded bytes, then returns the plaintext
decrypt_token(encrypted_token) ==
  IF encrypted_token.hmac = Hmac(_get_fernet, encrypted_token.iv, encrypted_token.body)
  THEN encrypted_token.body
  ELSE CryptoError

\* token_crypto.py 17-22: one call of encrypt_token on the plaintext held in
\* call
encrypt_token_call(iv) ==
  /\ call.fn = "token_crypto"
  /\ call.stage = "plaintext"
  /\ call' = [call EXCEPT !.produced = encrypt_token(call.plaintext, iv),
                          !.stored = encrypt_token(call.plaintext, iv),
                          !.stage = "encrypted"]
  /\ UNCHANGED <<now, xero_connections, oauth_states, state_counter, provider,
                 accepted, tm, cb, response, transactions, exclusion_rules>>
  /\ UNCHANGED assignVars

\* the stored ciphertext is replaced by a text that encrypt_token never
\* produced (tampered, truncated or malformed)
corrupt_token(encrypted_token) ==
  /\ call.fn = "token_crypto"
  /\ call.stage = "encrypted"
  /\ encrypted_token # call.produced
  /\ call' = [call EXCEPT !.stored = encrypted_token, !.stage = "corrupted"]
  /\ UNCHANGED <<now, xero_connections, oauth_states, state_counter, provider,
                 accepted, tm, cb, response, transactions, exclusion_rules>>
  /\ UNCHANGED assignVars

\* token_crypto.py 25-30: one call of decrypt_token on the stored ciphertext
decrypt_token_call ==
  /\ call.fn = "token_crypto"
  /\ call.stage \in {"encrypted", "corrupted"}
  /\ call' = [call EXCEPT !.result = decrypt_token(call.stored),
                          !.stage = "decrypted"]
  /\ UNCHANGED <<now, xero_connections, oauth_states, state_counter, provider,
                 accepted, tm, cb, response, transactions, exclusion_rules>>
  /\ UNCHANGED assignVars

\* --------------------------------------------------------------- the tables
\* models/xero_connection.py XeroConnection: no unique constraint on
\* organization_id (the __table_args__ hold no constraint)
XeroConnection(id, org, tenant, access, refresh, expires, status, by) ==
  [id |-> id, organization_id |-> org,
   xero_tenant_id |-> tenant.tenantId, xero_tenant_name |-> tenant.tenantName,
   access_token_encrypted |-> access, refresh_token_encrypted |-> refresh,
   expires_at |-> expires, sync_status |-> status, connected_by |-> by]

NoRow == XeroConnection(0, None, Tenant(None), NoCipher, NoCipher, 0, None, None)

\* database.py SessionLocal: on commit the unit of work writes, for a loaded
\* object, the attributes whose value differs from the loaded one
OrmFlush(dbrow, loaded, obj) ==
  [f \in DOMAIN dbrow |-> IF obj[f] # loaded[f] THEN obj[f] ELSE dbrow[f]]

\* db.query(XeroConnection).filter(organization_id == ...): matching row ids
ConnectionsOf(org) ==
  {i \in DOMAIN xero_connections : xero_connections[i].organization_id = org}

\* ------------------------------------------------- clients and assignments
\* a NULL timestamp
NoTime == -1
\* models/client_assignment.py 24-34: a new row has unassigned_at NULL
ClientAssignment(id, organization_id, client_id, user_id) ==
  [id |-> id, organization_id |-> organization_id, client_id |-> client_id,
   user_id |-> user_id, unassigned_at |-> NoTime]
\* models/client.py 23-26
Client(id, organization_id) == [id |-> id, organization_id |-> organization_id]
\* a worker with no client or assignment request in progress
RqIdle == [pc |-> "idle", client_id |-> 0, user_id |-> None, existing |-> 0,
           client_ids |-> <<>>]
\* the tables before any client was created
NoRequests ==
  /\ clients = <<>>
  /\ client_assignments = <<>>
  /\ rq = [r \in Requests |-> RqIdle]

\* ------------------------------------------------------------ results
NoResult == [kind |-> "none", token |-> NoToken, error |-> None, state |-> 0]
Ok(token) == [kind |-> "ok", token |-> token, error |-> None, state |-> 0]
Err(e) == [kind |-> "error", token |-> NoToken, error |-> e, state |-> 0]
\* HTTP 400 "Invalid or expired state", with the state value of the request
InvalidState(state) == [Err("Invalid or expired state") EXCEPT !.state = state]

NoResp == [status |-> 0, access_token |-> NoToken, refresh_token |-> NoToken,
           expires_in |-> 0]
AccessToken(k) == <<"A", k>>
RefreshToken(k) == <<"R", k>>

TmIdle == [pc |-> "idle", organization_id |-> None, connection |-> NoRow,
           refresh_token |-> NoToken, resp |-> NoResp]
CbIdle == [pc |-> "idle", state |-> 0, user_id |-> None, organization_id |-> None,
           tokens |-> NoResp, access_token |-> NoCipher, refresh_token |-> NoCipher,
           expires_at |-> 0, loaded |-> NoRow, connection |-> NoRow]

\* no pure function is being evaluated
NoCall == [fn |-> "none"]

Init ==
  /\ now = 0
  /\ xero_connections = <<>>
  /\ oauth_states = {}
  /\ state_counter = 0
  /\ provider = [valid |-> {}, issued |-> 0]
  /\ accepted = [s \in 1..MaxStates |-> 0]
  /\ tm = [p \in Procs |-> TmIdle]
  /\ cb = [c \in Callbacks |-> CbIdle]
  /\ response = NoResult
  /\ transactions = {}
  /\ exclusion_rules = <<>>
  /\ call = NoCall
  /\ NoRequests

\* ------------------------------------------------------------------- clock
Tick(d, horizon) ==
  /\ now + d <= horizon
  /\ now' = now + d
  /\ UNCHANGED syncVars
  /\ UNCHANGED <<xero_connections, oauth_states, state_counter, provider,
                 accepted, tm, cb, response>>
  /\ UNCHANGED <<call, assignVars>>

\* ------------------------------------------------------------ token manager
\* a load that still takes the stored token when it expires exactly at the
\* margin
get_valid_access_token_load_inclusive(p, organization_id) ==
  /\ tm[p].pc = "idle"
  /\ IF ConnectionsOf(organization_id) = {}
     THEN /\ response' = Err("No Xero connection found")
          /\ UNCHANGED tm
     ELSE \E i \in ConnectionsOf(organization_id) :
            LET connection == xero_connections[i]
                access_token == decrypt_token(connection.access_token_encrypted)
                refresh_token == decrypt_token(connection.refresh_token_encrypted)
            IN IF connection.expires_at >= now + RefreshMargin
               THEN /\ response' = IF access_token = CryptoError
                                   THEN Err("CryptoError") ELSE Ok(access_token)
                    /\ UNCHANGED tm
               ELSE IF refresh_token = CryptoError
               THEN /\ response' = Err("CryptoError")
                    /\ UNCHANGED tm
               ELSE /\ tm' = [tm EXCEPT ![p] = [TmIdle EXCEPT
                                !.pc = "await_refresh",
                                !.organization_id = organization_id,
                                !.connection = connection,
                                !.refresh_token = refresh_token]]
                    /\ UNCHANGED response
  /\ UNCHANGED syncVars
  /\ UNCHANGED <<now, xero_connections, oauth_states, state_counter, provider,
                 accepted, cb>>
  /\ UNCHANGED <<call, assignVars>>

\* token_manager.py 19-47: load the Connection, return the stored token when
\* it is valid for more than the margin, else post the refresh request
get_valid_access_token_load(p, organization_id) ==
  /\ tm[p].pc = "idle"
  /\ IF ConnectionsOf(organization_id) = {}
     THEN /\ response' = Err("No Xero connection found")
          /\ UNCHANGED tm
     ELSE \E i \in ConnectionsOf(organization_id) :
            LET connection == xero_connections[i]
                access_token == decrypt_token(connection.access_token_encrypted)
                refresh_token == decrypt_token(connection.refresh_token_encrypted)
            IN IF connection.expires_at > now + RefreshMargin
               THEN /\ response' = IF access_token = CryptoError
                                   THEN Err("CryptoError") ELSE Ok(access_token)
                    /\ UNCHANGED tm
               ELSE IF refresh_token = CryptoError
               THEN /\ response' = Err("CryptoError")
                    /\ UNCHANGED tm
               ELSE /\ tm' = [tm EXCEPT ![p] = [TmIdle EXCEPT
                                !.pc = "await_refresh",
                                !.organization_id = organization_id,
                                !.connection = connection,
                                !.refresh_token = refresh_token]]
                    /\ UNCHANGED response
  /\ UNCHANGED syncVars
  /\ UNCHANGED <<now, xero_connections, oauth_states, state_counter, provider,
                 accepted, cb>>
  /\ UNCHANGED <<call, assignVars>>

\* the provider's token endpoint, grant_type = refresh_token: a valid refresh
\* token is rotated (token_manager.py:56), a used or unknown one is rejected,
\* the endpoint may answer 503, and the request may not get through at all:
\* client.post (token_manager.py 42-47) then raises and nothing is committed
provider_refresh(p, expires_in) ==
  /\ tm[p].pc = "await_refresh"
  /\ tm[p].resp.status = 0
  /\ \/ /\ tm[p].refresh_token \in provider.valid
        /\ provider.issued < MaxTokens
        /\ LET k == provider.issued + 1 IN
           /\ provider' = [valid |-> (provider.valid \ {tm[p].refresh_token})
                                       \cup {RefreshToken(k)},
                           issued |-> k]
           /\ tm' = [tm EXCEPT ![p].resp =
                       [status |-> 200, access_token |-> AccessToken(k),
                        refresh_token |-> RefreshToken(k),
                        expires_in |-> expires_in]]
           /\ UNCHANGED response
     \/ /\ tm[p].refresh_token \notin provider.valid
        /\ tm' = [tm EXCEPT ![p].resp = [NoResp EXCEPT !.status = 400]]
        /\ UNCHANGED <<provider, response>>
     \/ /\ tm' = [tm EXCEPT ![p].resp = [NoResp EXCEPT !.status = 503]]
        /\ UNCHANGED <<provider, response>>
     \/ /\ tm' = [tm EXCEPT ![p] = TmIdle]
        /\ response' = Err("httpx.RequestError")
        /\ UNCHANGED provider
  /\ UNCHANGED syncVars
  /\ UNCHANGED <<now, xero_connections, oauth_states, state_counter,
                 accepted, cb>>
  /\ UNCHANGED <<call, assignVars>>

\* token_manager.py 49-52: any non-200 answer marks the Connection revoked
get_valid_access_token_failed(p) ==
  /\ tm[p].pc = "await_refresh"
  /\ tm[p].resp.status \notin {0, 200}
  /\ LET loaded == tm[p].connection
         connection == [loaded EXCEPT !.sync_status = "revoked"]
     IN xero_connections' = [xero_connections EXCEPT ![loaded.id] =
                               OrmFlush(@, loaded, connection)]
  /\ tm' = [tm EXCEPT ![p] = TmIdle]
  /\ response' = Err("Failed to refresh Xero token")
  /\ UNCHANGED syncVars
  /\ UNCHANGED <<now, oauth_states, state_counter, provider, accepted, cb>>
  /\ UNCHANGED <<call, assignVars>>

\* a refresh that returns the new token and leaves the commit of the rotated
\* pair to the end of the request
get_valid_access_token_refreshed_deferred(p) ==
  /\ tm[p].pc = "await_refresh"
  /\ tm[p].resp.status = 200
  /\ tm' = [tm EXCEPT ![p] = TmIdle]
  /\ response' = Ok(tm[p].resp.access_token)
  /\ UNCHANGED syncVars
  /\ UNCHANGED <<now, xero_connections, oauth_states, state_counter, provider,
                 accepted, cb>>
  /\ UNCHANGED <<call, assignVars>>

\* token_manager.py 54-66: store the rotated pair and return the new token
get_valid_access_token_refreshed(p) ==
  /\ tm[p].pc = "await_refresh"
  /\ tm[p].resp.status = 200
  /\ \E iv1 \in IVs, iv2 \in IVs :
       LET tokens == tm[p].resp
           loaded == tm[p].connection
           connection == [loaded EXCEPT
             !.access_token_encrypted = encrypt_token(tokens.access_token, iv1),
             !.refresh_token_encrypted = encrypt_token(tokens.refresh_token, iv2),
             !.expires_at = now + tokens.expires_in,
             !.sync_status = "connected"]
           t == decrypt_token(connection.access_token_encrypted)
       IN /\ xero_connections' = [xero_connections EXCEPT ![loaded.id] =
                                    OrmFlush(@, loaded, connection)]
          /\ tm' = [tm EXCEPT ![p] = TmIdle]
          /\ response' = IF t = CryptoError THEN Err("CryptoError") ELSE Ok(t)
  /\ UNCHANGED syncVars
  /\ UNCHANGED <<now, oauth_states, state_counter, provider, accepted, cb>>
  /\ UNCHANGED <<call, assignVars>>

\* ------------------------------------------------------- transaction fetch
Fetched == [NoResult EXCEPT !.kind = "fetched"]

\* transactions.py 27-47 fetch_bank_transactions: with the token that
\* get_valid_access_token returned, GET BankTransactions; any status but
\* 200 raises, and nothing is written either way
fetch_bank_transactions(status_code) ==
  /\ response.kind = "ok"
  /\ response.token # NoToken
  /\ response' = IF status_code # 200
                 THEN Err("Failed to fetch bank transactions")
                 ELSE Fetched
  /\ UNCHANGED syncVars
  /\ UNCHANGED xeroVars
  /\ UNCHANGED <<call, assignVars>>

\* ------------------------------------------------------------- state store
NoStateData == [state |-> 0, user_id |-> None, organization_id |-> None, expires_at |-> 0]

\* services/xero/state_store.py store_oauth_state: keep the entry until expiry
store_oauth_state(state, user_id, organization_id, expires_at) ==
  oauth_states \cup {[state |-> state, user_id |-> user_id,
                      organization_id |-> organization_id, expires_at |-> expires_at]}

\* a store that hands out an entry however old it is
consume_oauth_state_noexpiry(state) ==
  LET live == {s \in oauth_states : s.state = state}
  IN IF live = {} THEN NoStateData ELSE CHOOSE s \in live : TRUE

\* services/xero/state_store.py consume_oauth_state: atomic read-and-delete;
\* the entry read (NoStateData when absent or expired) ...
consume_oauth_state(state) ==
  LET live == {s \in oauth_states : s.state = state /\ now <= s.expires_at}
  IN IF live = {} THEN NoStateData ELSE CHOOSE s \in live : TRUE

\* ... and the store it leaves behind
consume_oauth_state_store(state) ==
  {s \in oauth_states : s.state # state}

\* ---------------------------------------------------------------- OAuth flow
\* api/auth/xero.py 25-64 connect_xero: a fresh state token bound to the
\* actor and the actor's organization for 15 minutes
connect_xero(current_user) ==
  /\ current_user.organization_id # None
  /\ current_user.role \in {"owner", "admin"}
  /\ state_counter < MaxStates
  /\ LET state == state_counter + 1 IN
     /\ state_counter' = state
     /\ oauth_states' = store_oauth_state(state, current_user.id,
                                          current_user.organization_id,
                                          now + StateTTL)
  /\ UNCHANGED syncVars
  /\ UNCHANGED <<now, xero_connections, provider, accepted, tm, cb, response>>
  /\ UNCHANGED <<call, assignVars>>

\* xero_callback that validates the state but leaves it in the store
xero_callback_consume_peek(c, code, state) ==
  /\ cb[c].pc = "idle"
  /\ IF code = "" \/ state = 0
     THEN /\ response' = Err("Missing code or state")
          /\ UNCHANGED <<accepted, cb>>
     ELSE LET state_data == consume_oauth_state(state) IN
          IF state_data = NoStateData
          THEN /\ response' = InvalidState(state)
               /\ UNCHANGED <<accepted, cb>>
          ELSE /\ cb' = [cb EXCEPT ![c] = [CbIdle EXCEPT
                           !.pc = "exchange", !.state = state,
                           !.user_id = state_data.user_id,
                           !.organization_id = state_data.organization_id]]
               /\ accepted' = [accepted EXCEPT ![state] = @ + 1]
               /\ UNCHANGED response
  /\ UNCHANGED syncVars
  /\ UNCHANGED <<now, xero_connections, oauth_states, state_counter, provider, tm>>
  /\ UNCHANGED <<call, assignVars>>

\* xero_callback that goes on to the code exchange whatever the state store
\* answered
xero_callback_consume_unchecked(c, code, state) ==
  /\ cb[c].pc = "idle"
  /\ IF code = "" \/ state = 0
     THEN /\ response' = Err("Missing code or state")
          /\ UNCHANGED <<oauth_states, accepted, cb>>
     ELSE LET state_data == consume_oauth_state(state) IN
          /\ oauth_states' = consume_oauth_state_store(state)
          /\ cb' = [cb EXCEPT ![c] = [CbIdle EXCEPT
                      !.pc = "exchange", !.state = state,
                      !.user_id = state_data.user_id,
                      !.organization_id = state_data.organization_id]]
          /\ accepted' = [accepted EXCEPT ![state] = @ + 1]
          /\ UNCHANGED response
  /\ UNCHANGED syncVars
  /\ UNCHANGED <<now, xero_connections, state_counter, provider, tm>>
  /\ UNCHANGED <<call, assignVars>>

\* api/auth/xero.py 75-104 xero_callback: check the parameters, consume the
\* state, post the code exchange
xero_callback_consume(c, code, state) ==
  /\ cb[c].pc = "idle"
  /\ IF code = "" \/ state = 0
     THEN /\ response' = Err("Missing code or state")
          /\ UNCHANGED <<oauth_states, accepted, cb>>
     ELSE LET state_data == consume_oauth_state(state) IN
          /\ oauth_states' = consume_oauth_state_store(state)
          /\ IF state_data = NoStateData
             THEN /\ response' = InvalidState(state)
                  /\ UNCHANGED <<accepted, cb>>
             ELSE /\ cb' = [cb EXCEPT ![c] = [CbIdle EXCEPT
                              !.pc = "exchange", !.state = state,
                              !.user_id = state_data.user_id,
                              !.organization_id = state_data.organization_id]]
                  /\ accepted' = [accepted EXCEPT ![state] = @ + 1]
                  /\ UNCHANGED response
  /\ UNCHANGED syncVars
  /\ UNCHANGED <<now, xero_connections, state_counter, provider,
                 tm>>
  /\ UNCHANGED <<call, assignVars>>

\* a callback that treats a refused code exchange as a refused refresh and
\* marks the organization's Connection revoked
xero_callback_exchange_revoke(c, expires_in) ==
  /\ cb[c].pc = "exchange"
  /\ \/ /\ provider.issued < MaxTokens
        /\ \E iv1 \in IVs, iv2 \in IVs :
             LET k == provider.issued + 1
                 tokens == [status |-> 200, access_token |-> AccessToken(k),
                            refresh_token |-> RefreshToken(k),
                            expires_in |-> expires_in]
             IN /\ provider' = [valid |-> provider.valid \cup {RefreshToken(k)},
                                issued |-> k]
                /\ cb' = [cb EXCEPT ![c].pc = "tenants",
                            ![c].tokens = tokens,
                            ![c].access_token = encrypt_token(tokens.access_token, iv1),
                            ![c].refresh_token = encrypt_token(tokens.refresh_token, iv2),
                            ![c].expires_at = now + tokens.expires_in]
                /\ UNCHANGED <<response, xero_connections>>
     \/ /\ cb' = [cb EXCEPT ![c] = CbIdle]
        /\ response' = Err("Failed to exchange token")
        /\ xero_connections' =
             [i \in DOMAIN xero_connections |->
                IF xero_connections[i].organization_id = cb[c].organization_id
                THEN [xero_connections[i] EXCEPT !.sync_status = "revoked"]
                ELSE xero_connections[i]]
        /\ UNCHANGED provider
  /\ UNCHANGED syncVars
  /\ UNCHANGED <<now, oauth_states, state_counter, accepted, tm>>
  /\ UNCHANGED <<call, assignVars>>

\* api/auth/xero.py 99-113 xero_callback: the token endpoint answers the code
\* exchange; on 200 both tokens are encrypted and expires_at computed
xero_callback_exchange(c, expires_in) ==
  /\ cb[c].pc = "exchange"
  /\ \/ /\ provider.issued < MaxTokens
        /\ \E iv1 \in IVs, iv2 \in IVs :
             LET k == provider.issued + 1
                 tokens == [status |-> 200, access_token |-> AccessToken(k),
                            refresh_token |-> RefreshToken(k),
                            expires_in |-> expires_in]
             IN /\ provider' = [valid |-> provider.valid \cup {RefreshToken(k)},
                                issued |-> k]
                /\ cb' = [cb EXCEPT ![c].pc = "tenants",
                            ![c].tokens = tokens,
                            ![c].access_token = encrypt_token(tokens.access_token, iv1),
                            ![c].refresh_token = encrypt_token(tokens.refresh_token, iv2),
                            ![c].expires_at = now + tokens.expires_in]
                /\ UNCHANGED response
     \/ /\ cb' = [cb EXCEPT ![c] = CbIdle]
        /\ response' = Err("Failed to exchange token")
        /\ UNCHANGED provider
  /\ UNCHANGED syncVars
  /\ UNCHANGED <<now, xero_connections, oauth_states, state_counter,
                 accepted, tm>>
  /\ UNCHANGED <<call, assignVars>>

\* an insert that leaves connected_by empty
xero_callback_insert_unbound(c, tenant) ==
  XeroConnection(0, cb[c].organization_id, tenant, cb[c].access_token,
                 cb[c].refresh_token, cb[c].expires_at, "connected", None)

\* api/auth/xero.py 138-152 xero_callback: the row built when none exists
xero_callback_insert(c, tenant) ==
  XeroConnection(0, cb[c].organization_id, tenant, cb[c].access_token,
                 cb[c].refresh_token, cb[c].expires_at, "connected", cb[c].user_id)

\* api/auth/xero.py 153- xero_callback: the existing row overwritten with the
\* new tokens, expiry and tenant, sync_status connected
xero_callback_update(c, connection, tenant) ==
  [connection EXCEPT
     !.access_token_encrypted = cb[c].access_token,
     !.refresh_token_encrypted = cb[c].refresh_token,
     !.expires_at = cb[c].expires_at,
     !.xero_tenant_id = tenant.tenantId,
     !.xero_tenant_name = tenant.tenantName,
     !.sync_status = "connected"]

\* api/auth/xero.py 116-152 xero_callback: the tenant list arrives; the first
\* tenant is taken, the organization's Connection is queried and the insert
\* or update is staged in the session
xero_callback_tenants(c, tenants) ==
  /\ cb[c].pc = "tenants"
  /\ IF tenants = <<>>
     THEN /\ cb' = [cb EXCEPT ![c] = CbIdle]
          /\ response' = Err("No Xero tenant found")
     ELSE LET tenant == tenants[1] IN
          /\ IF ConnectionsOf(cb[c].organization_id) = {}
             THEN cb' = [cb EXCEPT ![c].pc = "commit",
                           ![c].loaded = NoRow,
                           ![c].connection = xero_callback_insert(c, tenant)]
             ELSE \E i \in ConnectionsOf(cb[c].organization_id) :
                    cb' = [cb EXCEPT ![c].pc = "commit",
                             ![c].loaded = xero_connections[i],
                             ![c].connection =
                               xero_callback_update(c, xero_connections[i], tenant)]
          /\ UNCHANGED response
  /\ UNCHANGED syncVars
  /\ UNCHANGED <<now, xero_connections, oauth_states, state_counter, provider,
                 accepted, tm>>
  /\ UNCHANGED <<call, assignVars>>

\* api/auth/xero.py xero_callback, end: db.commit() writes the staged row
xero_callback_commit(c) ==
  /\ cb[c].pc = "commit"
  /\ IF cb[c].loaded = NoRow
     THEN xero_connections' = Append(xero_connections,
            [cb[c].connection EXCEPT !.id = Len(xero_connections) + 1])
     ELSE xero_connections' = [xero_connections EXCEPT ![cb[c].loaded.id] =
            OrmFlush(@, cb[c].loaded, cb[c].connection)]
  /\ cb' = [cb EXCEPT ![c] = CbIdle]
  /\ response' = Ok(NoToken)
  /\ UNCHANGED syncVars
  /\ UNCHANGED <<now, oauth_states, state_counter, provider, accepted, tm>>
  /\ UNCHANGED <<call, assignVars>>

\* ----------------------------------------------------------------- strings
\* A string is a tuple of characters; Null is Python's None.
Null == <<"None">>
Empty == <<>>
\* str.lower() on one character
LowerChar(ch) ==
  CASE ch = "A" -> "a"
    [] ch = "B" -> "b"
    [] OTHER -> ch
\* str.lower()
Lower(str) == [i \in DOMAIN str |-> LowerChar(str[i])]
\* not value: None or the empty string
Falsy(str) == str = Null \/ str = Empty
\* a or b
OrElse(a, b) == IF Falsy(a) THEN b ELSE a
\* needle in haystack
Contains(haystack, needle) ==
  \E off \in 0..(Len(haystack) - Len(needle)) :
    \A i \in 1..Len(needle) : haystack[off + i] = needle[i]
\* haystack.startswith(needle)
StartsWith(haystack, needle) ==
  /\ Len(needle) <= Len(haystack)
  /\ \A i \in 1..Len(needle) : haystack[i] = needle[i]
\* haystack.endswith(needle)
EndsWith(haystack, needle) ==
  /\ Len(needle) <= Len(haystack)
  /\ \A i \in 1..Len(needle) :
       haystack[Len(haystack) - Len(needle) + i] = needle[i]
\* re.compile raises re.error: an opening parenthesis that is never closed
ReError(pattern) ==
  Cardinality({i \in DOMAIN pattern : pattern[i] = "("})
    # Cardinality({i \in DOMAIN pattern : pattern[i] = ")"})
\* re.compile raises OverflowError, which is not an re.error: a repetition
\* count of MAXREPEAT or more, written here as one character
ReOverflow(pattern) ==
  \E i \in DOMAIN pattern : pattern[i] = "{4294967295}"
\* re.search(pattern, value, re.IGNORECASE) for patterns of literals and "."
ReSearch(pattern, value) ==
  \E off \in 0..(Len(value) - Len(pattern)) :
    \A i \in 1..Len(pattern) :
      \/ pattern[i] = "."
      \/ LowerChar(pattern[i]) = LowerChar(value[off + i])

\* --------------------------------------------------------- exclusion engine
\* models/exclusion_rule.py 15-44 ExclusionRule
ExclusionRule(org, rule_type, pattern, match_type, enabled, reason) ==
  [organization_id |-> org, rule_type |-> rule_type, pattern |-> pattern,
   match_type |-> match_type, enabled |-> enabled, reason |-> reason]

\* models/exclusion_rule.py 49-52 ExclusionRule.is_active
is_active(rule) == rule.enabled

\* models/exclusion_rule.py 62-83 ExclusionRule.matches raises: the try around
\* re.search catches re.error only, the OverflowError of a pattern whose
\* repetition count is too large leaves the method
matches_raises(rule, value) ==
  /\ ~Falsy(value)
  /\ rule.enabled
  /\ rule.match_type = "regex"
  /\ ReOverflow(rule.pattern)

\* models/exclusion_rule.py 54-85 ExclusionRule.matches: the value returned
\* (when the call raises, see matches_raises, nothing is returned)
matches(rule, value) ==
  IF Falsy(value) \/ ~rule.enabled THEN FALSE
  ELSE LET value_lower == Lower(value)
           pattern_lower == Lower(rule.pattern)
       IN CASE rule.match_type = "contains" -> Contains(value_lower, pattern_lower)
            [] rule.match_type = "equals" -> value_lower = pattern_lower
            [] rule.match_type = "starts_with" -> StartsWith(value_lower, pattern_lower)
            [] rule.match_type = "ends_with" -> EndsWith(value_lower, pattern_lower)
            [] rule.match_type = "regex" ->
                 IF ReOverflow(rule.pattern) \/ ReError(rule.pattern) THEN FALSE
                 ELSE ReSearch(rule.pattern, value)
            [] OTHER -> FALSE

\* an engine that evaluates every rule as if it were enabled
RuleExcludes_any(transaction, rule) ==
  /\ rule.rule_type \in {"supplier_name", "description"}
  /\ matches([rule EXCEPT !.enabled = TRUE],
             IF rule.rule_type = "supplier_name"
             THEN transaction.supplier_name
             ELSE transaction.description)

\* services/exclusion/engine.py 16-27: does this rule exclude the transaction
RuleExcludes(transaction, rule) ==
  /\ is_active(rule)
  /\ rule.rule_type \in {"supplier_name", "description"}
  /\ matches(rule, IF rule.rule_type = "supplier_name"
                   THEN transaction.supplier_name
                   ELSE transaction.description)

AutoExcluded == <<"Auto-excluded">>

\* services/exclusion/engine.py 16-27: rule.matches(value) raises for this rule
RuleRaises(transaction, rule) ==
  /\ is_active(rule)
  /\ rule.rule_type \in {"supplier_name", "description"}
  /\ matches_raises(rule, IF rule.rule_type = "supplier_name"
                          THEN transaction.supplier_name
                          ELSE transaction.description)

\* services/exclusion/engine.py 7-33 apply_exclusion_rules: the transaction as
\* the call leaves it, the value returned, and whether the call raised instead
\* of returning (an exception of rule.matches is not caught in the loop)
RECURSIVE apply_exclusion_rules(_, _)
apply_exclusion_rules(transaction, rules) ==
  IF rules = <<>>
  THEN [transaction |-> transaction, excluded |-> FALSE, raised |-> FALSE]
  ELSE IF RuleRaises(transaction, Head(rules))
  THEN [transaction |-> transaction, excluded |-> FALSE, raised |-> TRUE]
  ELSE IF RuleExcludes(transaction, Head(rules))
  THEN [transaction |-> [transaction EXCEPT
                           !.excluded = TRUE,
                           !.document_required = FALSE,
                           !.exclusion_reason = OrElse(Head(rules).reason, AutoExcluded)],
        excluded |-> TRUE, raised |-> FALSE]
  ELSE apply_exclusion_rules(transaction, Tail(rules))

\* services/exclusion/engine.py 7-33: one call of apply_exclusion_rules on
\* the transaction and the rule list held in call
apply_exclusion_rules_call ==
  /\ call.fn = "apply_exclusion_rules"
  /\ ~call.done
  /\ LET result == apply_exclusion_rules(call.transaction, call.rules)
     IN call' = [call EXCEPT !.after = result.transaction,
                             !.returned = result.excluded,
                             !.raised = result.raised,
                             !.done = TRUE]
  /\ UNCHANGED syncVars
  /\ UNCHANGED xeroVars
  /\ UNCHANGED response
  /\ UNCHANGED assignVars

\* --------------------------------------------------------- transaction sync
\* tx.get(key): a provider record, absent fields None
XeroRecord(id, type, date, total, reference, name, has_attachments) ==
  [BankTransactionID |-> id, Type |-> type, Date |-> date, Total |-> total,
   Reference |-> reference, LineAmountTypes |-> <<"E", "x">>,
   ContactName |-> name, HasAttachments |-> has_attachments]

\* an insert that forgets to run the exclusion engine
NewTransaction_norules(organization_id, client_id, tx, rules) ==
  [organization_id |-> organization_id,
   client_id |-> client_id,
   xero_transaction_id |-> tx.BankTransactionID,
   xero_type |-> tx.Type,
   date |-> tx.Date,
   amount |-> tx.Total,
   description |-> OrElse(tx.Reference, tx.LineAmountTypes),
   supplier_name |-> tx.ContactName,
   document_required |-> ~tx.HasAttachments,
   document_received |-> tx.HasAttachments,
   excluded |-> FALSE,
   exclusion_reason |-> Null]

\* transaction_sync.py 50-65: the object built for a new identifier
new_tx(organization_id, client_id, tx) ==
  [organization_id |-> organization_id,
   client_id |-> client_id,
   xero_transaction_id |-> tx.BankTransactionID,
   xero_type |-> tx.Type,
   date |-> tx.Date,
   amount |-> tx.Total,
   description |-> OrElse(tx.Reference, tx.LineAmountTypes),
   supplier_name |-> tx.ContactName,
   document_required |-> ~tx.HasAttachments,
   document_received |-> tx.HasAttachments,
   excluded |-> FALSE,
   exclusion_reason |-> Null]

\* transaction_sync.py 50-67: the row inserted for a new identifier
NewTransaction(organization_id, client_id, tx, rules) ==
  apply_exclusion_rules(new_tx(organization_id, client_id, tx), rules).transaction

\* an update that copies HasAttachments into document_received
UpdatedTransaction_overwrite(existing, tx, rules) ==
  LET updated == [existing EXCEPT
                    !.xero_type = tx.Type,
                    !.date = tx.Date,
                    !.amount = tx.Total,
                    !.description = OrElse(tx.Reference, existing.description),
                    !.supplier_name = tx.ContactName,
                    !.document_required = ~tx.HasAttachments,
                    !.document_received = tx.HasAttachments]
  IN apply_exclusion_rules(updated, rules).transaction

\* transaction_sync.py 71-85: the existing object with the remote fields
\* assigned
Reassigned(existing, tx) ==
  [existing EXCEPT
     !.xero_type = tx.Type,
     !.date = tx.Date,
     !.amount = tx.Total,
     !.description = OrElse(tx.Reference, existing.description),
     !.supplier_name = tx.ContactName,
     !.document_required = ~tx.HasAttachments,
     !.document_received = IF tx.HasAttachments THEN TRUE
                           ELSE existing.document_received]

\* an update that decides the exclusion afresh from the current rules
UpdatedTransaction_reset(existing, tx, rules) ==
  apply_exclusion_rules([Reassigned(existing, tx) EXCEPT
                           !.excluded = FALSE, !.exclusion_reason = Null],
                        rules).transaction

\* transaction_sync.py 71-87: the existing row after the update
UpdatedTransaction(existing, tx, rules) ==
  apply_exclusion_rules(Reassigned(existing, tx), rules).transaction

\* transaction_sync.py 21-28: the organization's enabled rules, storage order
EnabledRules(organization_id) ==
  SelectSeq(exclusion_rules,
            LAMBDA r : r.organization_id = organization_id /\ r.enabled)

\* transaction_sync.py 39-46: the stored row of this organization with this
\* identifier, as the session holds it (pending rows are not flushed:
\* database.py 46-51 autoflush = False)
Existing(rows, organization_id, xero_tx_id) ==
  {r \in rows : r.organization_id = organization_id
                /\ r.xero_transaction_id = xero_tx_id}

\* a loop that takes every record, identifier or not
SkipRecord_never(tx) == FALSE

\* transaction_sync.py 33-35: not xero_tx_id, the identifier is missing or empty
SkipRecord(tx) == tx.BankTransactionID \in {None, ""}

\* transaction_sync.py 32-87: the session after the loop over the batch from
\* record i on: rows loaded or left in the table, rows pending insert, and
\* whether apply_exclusion_rules (lines 67, 87) raised, which ends the call
\* before db.commit()
RECURSIVE UpsertLoop(_, _, _, _, _, _)
UpsertLoop(organization_id, client_id, batch, i, rules, session) ==
  IF i > Len(batch) THEN session
  ELSE LET tx == batch[i]
           existing == Existing(session.rows, organization_id, tx.BankTransactionID)
       IN IF SkipRecord(tx)
          THEN UpsertLoop(organization_id, client_id, batch, i + 1, rules, session)
          ELSE IF existing = {}
          THEN IF apply_exclusion_rules(new_tx(organization_id, client_id, tx),
                                        rules).raised
               THEN [session EXCEPT !.raised = TRUE]
               ELSE UpsertLoop(organization_id, client_id, batch, i + 1, rules,
                      [session EXCEPT !.pending =
                         Append(@, NewTransaction(organization_id, client_id, tx, rules))])
          ELSE LET row == CHOOSE r \in existing : TRUE IN
               IF apply_exclusion_rules(Reassigned(row, tx), rules).raised
               THEN [session EXCEPT !.raised = TRUE]
               ELSE UpsertLoop(organization_id, client_id, batch, i + 1, rules,
                      [session EXCEPT !.rows =
                         (@ \ {row}) \cup {UpdatedTransaction(row, tx, rules)}])

\* the call reaches db.commit() and the commit succeeds: models/transaction.py
\* 27-36, NOT NULL columns and the unique xero_transaction_id, as the database
\* enforces them at commit
CommitSucceeds(session) ==
  LET all == session.rows \cup {session.pending[i] : i \in DOMAIN session.pending}
  IN /\ ~session.raised
     /\ \A r \in all : /\ r.date # None /\ r.amount # None /\ r.client_id # None
                       /\ r.xero_transaction_id # None
     /\ \A i \in DOMAIN session.pending, j \in DOMAIN session.pending :
          i # j => session.pending[i].xero_transaction_id
                     # session.pending[j].xero_transaction_id
     /\ \A i \in DOMAIN session.pending : \A r \in session.rows :
          r.xero_transaction_id # session.pending[i].xero_transaction_id

\* models/transaction.py 27-36: the NOT NULL columns of a row
NotNullHolds(r) ==
  /\ r.organization_id # None /\ r.client_id # None
  /\ r.xero_transaction_id # None /\ r.date # None /\ r.amount # None

\* the INSERT statements of a flush, in the order the rows were added to the
\* session (transaction_sync.py 68); each is checked against the NOT NULL
\* columns and the unique xero_transaction_id (models/transaction.py 31), and
\* the first that fails ends the flush
RECURSIVE FlushInserts(_, _, _)
FlushInserts(table, pending, i) ==
  IF i > Len(pending) THEN [table |-> table, ok |-> TRUE]
  ELSE IF /\ NotNullHolds(pending[i])
          /\ \A r \in table : r.xero_transaction_id # pending[i].xero_transaction_id
  THEN FlushInserts(table \cup {pending[i]}, pending, i + 1)
  ELSE [table |-> table, ok |-> FALSE]

\* the statements db.commit() (transaction_sync.py 89) sends: the UPDATEs of
\* the loaded rows, then the INSERTs; table is what the statements that ran
\* have written when the flush ends
Flush(table, session) ==
  LET failed == {r \in session.rows : ~NotNullHolds(r)}
      kept == {t \in table : \E r \in failed :
                 /\ r.organization_id = t.organization_id
                 /\ r.xero_transaction_id = t.xero_transaction_id}
  IN IF failed # {}
     THEN [table |-> (session.rows \ failed) \cup kept, ok |-> FALSE]
     ELSE FlushInserts(session.rows, session.pending, 1)

\* a commit whose statements each take effect on their own
db_commit_autocommit(table, session) ==
  Flush(table, session).table

\* database.py 46-51 SessionLocal(autocommit=False) and 110-123 get_db: the
\* statements of a request run in one database transaction, which db.commit()
\* ends; when a statement fails the transaction is rolled back, and a call
\* that raised before db.commit() has sent no statement
db_commit(table, session) ==
  LET flushed == Flush(table, session)
  IN IF ~session.raised /\ flushed.ok THEN flushed.table ELSE table

\* a sync that mirrors the batch: stored rows the batch does not name are
\* dropped from the session
SyncSession_mirror(table, organization_id, client_id, batch) ==
  UpsertLoop(organization_id, client_id, batch, 1,
             EnabledRules(organization_id),
             [rows |-> {r \in table : \E i \in DOMAIN batch :
                          batch[i].BankTransactionID = r.xero_transaction_id},
              pending |-> <<>>, raised |-> FALSE])

\* transaction_sync.py 10-89 upsert_xero_transactions: what the call, run on
\* a table, leaves in the session
SyncSession(table, organization_id, client_id, batch) ==
  UpsertLoop(organization_id, client_id, batch, 1,
             EnabledRules(organization_id),
             [rows |-> table, pending |-> <<>>, raised |-> FALSE])

\* transaction_sync.py 89 db.commit(): the table afterwards is everything the
\* session holds, or the table as it was when the commit raises
SyncResult(table, organization_id, client_id, batch) ==
  db_commit(table, SyncSession(table, organization_id, client_id, batch))

\* number of rows the call inserts
SyncInserted(table, organization_id, client_id, batch) ==
  LET session == SyncSession(table, organization_id, client_id, batch)
  IN IF CommitSucceeds(session) THEN Len(session.pending) ELSE 0

\* transaction_sync.py 10-89 upsert_xero_transactions
upsert_xero_transactions(organization_id, client_id, batch) ==
  /\ LET session == SyncSession(transactions, organization_id, client_id, batch)
     IN /\ transactions' = db_commit(transactions, session)
        /\ response' = IF session.raised THEN Err("OverflowError")
                       ELSE IF CommitSucceeds(session)
                       THEN Ok(NoToken) ELSE Err("IntegrityError")
  /\ UNCHANGED exclusion_rules
  /\ UNCHANGED xeroVars
  /\ UNCHANGED <<call, assignVars>>

\* api/internal/xero_sync_debug.py 34-44 debug_sync_transactions: the records
\* that fetch_bank_transactions returned are upserted in the same request
debug_sync_transactions_upsert(batch) ==
  /\ response = Fetched
  /\ upsert_xero_transactions("o1", "c1", batch)

\* --------------------------------------------- rule administration (CRUD)
\* models/exclusion_rule.py: a rule row is created
create_rule(rule, max) ==
  /\ Len(exclusion_rules) < max
  /\ exclusion_rules' = Append(exclusion_rules, rule)
  /\ UNCHANGED <<transactions, response>>
  /\ UNCHANGED xeroVars
  /\ UNCHANGED <<call, assignVars>>

\* models/exclusion_rule.py 34: a rule is enabled or disabled
toggle_rule(i) ==
  /\ i \in DOMAIN exclusion_rules
  /\ exclusion_rules' = [exclusion_rules EXCEPT ![i].enabled = ~@]
  /\ UNCHANGED <<transactions, response>>
  /\ UNCHANGED xeroVars
  /\ UNCHANGED <<call, assignVars>>

\* models/exclusion_rule.py: a rule row is deleted
delete_rule(i) ==
  /\ i \in DOMAIN exclusion_rules
  /\ exclusion_rules' = [j \in 1..(Len(exclusion_rules) - 1) |->
                           IF j < i THEN exclusion_rules[j] ELSE exclusion_rules[j + 1]]
  /\ UNCHANGED <<transactions, response>>
  /\ UNCHANGED xeroVars
  /\ UNCHANGED <<call, assignVars>>

\* ------------------------------------------------------------ sync inputs
\* remote records the provider may return
Records == {
  XeroRecord("x1", "SPEND", "d1", "10", Null, <<"A", "b">>, FALSE),
  XeroRecord("x1", "SPEND", "d1", "20", <<"b">>, Null, TRUE),
  XeroRecord("x2", "SPEND", "d1", "10", <<"A", "b">>, <<"b">>, FALSE),
  XeroRecord("x2", "SPEND", None, "10", Null, <<"b">>, TRUE),
  XeroRecord(None, "SPEND", "d1", "10", <<"b">>, <<"b">>, TRUE) }
\* batches of at most MaxBatch records
Batches == UNION {[1..n -> Records] : n \in 0..MaxBatch}
\* rules an administrator may create
RuleCatalog(org) == {
  ExclusionRule(org, "supplier_name", <<"B">>, "contains", TRUE, <<"r">>),
  ExclusionRule(org, "description", <<"a", "b">>, "equals", TRUE, Empty) }

\* ---------------------------------------------------------- specifications
\* Token refresh: two concurrent get_valid_access_token calls, one callback
\* process connecting organization o1.
NextRefresh ==
  \/ Tick(1, MaxTime)
  \/ \E p \in Procs : get_valid_access_token_load(p, "o1")
  \/ \E p \in Procs, e \in ExpiresIn : provider_refresh(p, e)
  \/ \E p \in Procs : get_valid_access_token_failed(p)
  \/ \E p \in Procs : get_valid_access_token_refreshed(p)
  \/ \E status_code \in {200, 503} : fetch_bank_transactions(status_code)
  \/ \E u \in {v \in Users : v.organization_id # "o2"} : connect_xero(u)
  \/ \E code \in {"", "code"}, state \in 0..MaxStates :
       xero_callback_consume(1, code, state)
  \/ \E e \in ExpiresIn : xero_callback_exchange(1, e)
  \/ \E tenants \in {<<>>, <<Tenant("t1")>>} : xero_callback_tenants(1, tenants)
  \/ xero_callback_commit(1)

SpecRefresh == Init /\ [][NextRefresh]_vars

\* OAuth handshake: two concurrent callbacks, two organizations.
NextOAuth ==
  \/ \E d \in {StateTTL, StateTTL + 1} : Tick(d, StateTTL + 1)
  \/ \E u \in Users : connect_xero(u)
  \/ \E c \in Callbacks, code \in {"", "code"}, state \in 0..MaxStates :
       xero_callback_consume(c, code, state)
  \/ \E c \in Callbacks : xero_callback_exchange(c, RefreshMargin + 1)
  \/ \E c \in Callbacks, tenants \in TenantLists : xero_callback_tenants(c, tenants)
  \/ \E c \in Callbacks : xero_callback_commit(c)

SpecOAuth == Init /\ [][NextOAuth]_vars

\* Transaction sync of organization o1 while its rules are administered.
NextSync ==
  \/ \E batch \in Batches : upsert_xero_transactions("o1", "c1", batch)
  \/ \E rule \in RuleCatalog("o1") : create_rule(rule, MaxRules)
  \/ \E i \in 1..MaxRules : toggle_rule(i)
  \/ \E i \in 1..MaxRules : delete_rule(i)

SpecSync == Init /\ [][NextSync]_vars

\* Two organizations syncing from the same provider records, one record per
\* call, each with rules of its own.
ClientOf(org) == IF org = "o1" THEN "c1" ELSE "c2"
SingleBatches == {<<r>> : r \in Records}

NextTenants ==
  \/ \E org \in Orgs, batch \in SingleBatches :
       upsert_xero_transactions(org, ClientOf(org), batch)
  \/ \E org \in Orgs : \E rule \in RuleCatalog(org) : create_rule(rule, MaxRules)
  \/ \E i \in 1..MaxRules : toggle_rule(i)
  \/ \E i \in 1..MaxRules : delete_rule(i)

SpecTenants == Init /\ [][NextTenants]_vars

\* The exclusion engine on its own: every transaction and every rule list of
\* at most MaxRules rules.
EngineTransaction(supplier_name, description, document_required, excluded, reason) ==
  [organization_id |-> "o1", client_id |-> "c1", xero_transaction_id |-> "x1",
   xero_type |-> "SPEND", date |-> "d1", amount |-> "10",
   description |-> description, supplier_name |-> supplier_name,
   document_required |-> document_required, document_received |-> FALSE,
   excluded |-> excluded, exclusion_reason |-> reason]
EngineTransactions ==
  {EngineTransaction(s, d, q, e[1], e[2]) :
     s \in {Null, <<"A", "b">>, <<"c">>},
     d \in {Null, Empty, <<"a", "b">>},
     q \in BOOLEAN,
     e \in {<<FALSE, Null>>, <<TRUE, <<"m">>>>}}
EngineRules == {
  ExclusionRule("o1", "supplier_name", <<"B">>, "contains", TRUE, <<"r">>),
  ExclusionRule("o1", "description", <<"a", "b">>, "equals", TRUE, Empty),
  ExclusionRule("o1", "supplier_name", <<"a">>, "starts_with", TRUE, Null),
  ExclusionRule("o1", "supplier_name", <<"B">>, "contains", FALSE, <<"x">>),
  ExclusionRule("o1", "description", <<"b">>, "ends_with", FALSE, <<"y">>),
  ExclusionRule("o1", "supplier_name", <<"(">>, "regex", TRUE, <<"z">>),
  ExclusionRule("o1", "amount_range", <<"b">>, "contains", TRUE, <<"w">>),
  ExclusionRule("o1", "description", <<"A", ".">>, "regex", TRUE, <<"q">>),
  ExclusionRule("o1", "supplier_name", <<"a", "{4294967295}">>, "regex", TRUE, <<"v">>) }
RuleLists == UNION {[1..n -> EngineRules] : n \in 0..MaxRules}

InitEngine ==
  /\ NoRequests
  /\ now = 0
  /\ xero_connections = <<>>
  /\ oauth_states = {}
  /\ state_counter = 0
  /\ provider = [valid |-> {}, issued |-> 0]
  /\ accepted = [s \in 1..MaxStates |-> 0]
  /\ tm = [p \in Procs |-> TmIdle]
  /\ cb = [c \in Callbacks |-> CbIdle]
  /\ response = NoResult
  /\ transactions = {}
  /\ exclusion_rules = <<>>
  /\ call \in {[fn |-> "apply_exclusion_rules", transaction |-> t, rules |-> rules,
                after |-> t, returned |-> FALSE, raised |-> FALSE,
                done |-> FALSE] :
               t \in EngineTransactions, rules \in RuleLists}

NextEngine == apply_exclusion_rules_call

SpecEngine == InitEngine /\ [][NextEngine]_vars

\* The token cipher on its own: every plaintext, every IV, and every
\* ciphertext text that encrypt_token does not produce.
Plaintexts == {AccessToken(1), AccessToken(2), RefreshToken(1), RefreshToken(2)}
CryptoIVs == {0, 1}
Keys == {_get_fernet, "sha256(other)"}
\* every text encrypt_token writes under the application key; no other text
\* with a valid HMAC can be made without the key
Produced == {encrypt_token(s, iv) : s \in Plaintexts, iv \in CryptoIVs}
\* texts with any IV, body and pad, and an HMAC that is that of some text
\* under some key, or cut off
Ciphertexts ==
  {[iv |-> iv, body |-> body, hmac |-> hmac, pad |-> pad] :
     iv \in CryptoIVs, body \in Plaintexts,
     hmac \in {Hmac(k, i, b) : k \in Keys, i \in CryptoIVs, b \in Plaintexts}
               \cup {NoCipher.hmac},
     pad \in {0, 1}}

InitCrypto ==
  /\ NoRequests
  /\ now = 0
  /\ xero_connections = <<>>
  /\ oauth_states = {}
  /\ state_counter = 0
  /\ provider = [valid |-> {}, issued |-> 0]
  /\ accepted = [s \in 1..MaxStates |-> 0]
  /\ tm = [p \in Procs |-> TmIdle]
  /\ cb = [c \in Callbacks |-> CbIdle]
  /\ response = NoResult
  /\ transactions = {}
  /\ exclusion_rules = <<>>
  /\ call \in {[fn |-> "token_crypto", plaintext |-> s, produced |-> NoCipher,
                stored |-> NoCipher, result |-> NoToken, stage |-> "plaintext"] :
               s \in Plaintexts}

NextCrypto ==
  \/ \E iv \in CryptoIVs : encrypt_token_call(iv)
  \/ \E encrypted_token \in Ciphertexts \ Produced : corrupt_token(encrypted_token)
  \/ decrypt_token_call

SpecCrypto == InitCrypto /\ [][NextCrypto]_vars

\* Reconnection: organization o1 has no Connection yet or was connected by an
\* earlier handshake of u1 (its Connection is stored, connected or revoked
\* since); an owner and an admin of o1 start new handshakes, whose callbacks
\* run concurrently.
Colleague == [id |-> "u4", organization_id |-> "o1", role |-> "admin"]
Connected(sync_status) ==
  XeroConnection(1, "o1", Tenant("t1"),
                 encrypt_token(AccessToken(0), 0), encrypt_token(RefreshToken(0), 0),
                 RefreshMargin + 1, sync_status, "u1")

InitReconnect ==
  /\ now = 0
  /\ xero_connections \in {<<>>, <<Connected("connected")>>, <<Connected("revoked")>>}
  /\ oauth_states = {}
  /\ state_counter = 0
  /\ provider = [valid |-> {RefreshToken(0)}, issued |-> 0]
  /\ accepted = [s \in 1..MaxStates |-> 0]
  /\ tm = [p \in Procs |-> TmIdle]
  /\ cb = [c \in Callbacks |-> CbIdle]
  /\ response = NoResult
  /\ transactions = {}
  /\ exclusion_rules = <<>>
  /\ call = NoCall
  /\ NoRequests

NextReconnect ==
  \/ \E u \in {v \in Users : v.organization_id = "o1"} \cup {Colleague} :
       connect_xero(u)
  \/ \E c \in Callbacks, code \in {"", "code"}, state \in 0..MaxStates :
       xero_callback_consume(c, code, state)
  \/ \E c \in Callbacks : xero_callback_exchange(c, RefreshMargin + 1)
  \/ \E c \in Callbacks, tenants \in TenantLists : xero_callback_tenants(c, tenants)
  \/ \E c \in Callbacks : xero_callback_commit(c)

SpecReconnect == InitReconnect /\ [][NextReconnect]_vars

\* The sync request of organization o1, connected by an earlier handshake:
\* token (refreshed when inside the margin), fetch, upsert; two requests may
\* run concurrently.
InitSyncRequest ==
  /\ now = 0
  /\ xero_connections = <<Connected("connected")>>
  /\ oauth_states = {}
  /\ state_counter = 0
  /\ provider = [valid |-> {RefreshToken(0)}, issued |-> 0]
  /\ accepted = [s \in 1..MaxStates |-> 0]
  /\ tm = [p \in Procs |-> TmIdle]
  /\ cb = [c \in Callbacks |-> CbIdle]
  /\ response = NoResult
  /\ transactions = {}
  /\ exclusion_rules = <<>>
  /\ call = NoCall
  /\ NoRequests

NextSyncRequest ==
  \/ Tick(1, MaxTime)
  \/ \E p \in Procs : get_valid_access_token_load(p, "o1")
  \/ \E p \in Procs, e \in ExpiresIn : provider_refresh(p, e)
  \/ \E p \in Procs : get_valid_access_token_failed(p)
  \/ \E p \in Procs : get_valid_access_token_refreshed(p)
  \/ \E status_code \in {200, 503} : fetch_bank_transactions(status_code)
  \/ \E batch \in SingleBatches : debug_sync_transactions_upsert(batch)

SpecSyncRequest == InitSyncRequest /\ [][NextSyncRequest]_vars

\* ------------------------------------------------- assignment bookkeeping
\* user ids a request may name: staff of o1, staff of o2, nobody, an unknown id
AssignUserIds == {None, "u1", "u2", "u9"}
\* client ids a request may name
AssignClientIds == 1..MaxClients
\* client_ids lists of a bulk request
BulkLists == { <<1, 1>>, <<2, 1>> }
\* user ids a bulk request may name
BulkUserIds == {"u1", "u9"}

\* the filter unassigned_at IS NULL on the rows of one client
ActiveOf(client_id) ==
  {i \in DOMAIN client_assignments :
     /\ client_assignments[i].client_id = client_id
     /\ client_assignments[i].unassigned_at = NoTime}

\* .first() of the active-assignment query, without ORDER BY: 0 when there is
\* no row, otherwise whichever row the database returns
FirstActive(client_id) ==
  IF ActiveOf(client_id) = {} THEN {0} ELSE ActiveOf(client_id)

UserExists(user_id) == \E u \in Users : u.id = user_id
UserOrg(user_id) == (CHOOSE u \in Users : u.id = user_id).organization_id
Created == [NoResult EXCEPT !.kind = "created"]
NoContent == [NoResult EXCEPT !.kind = "no content"]

\* api/v1/clients.py 37-41: the client row is added and committed
create_client_insert(r, organization_id) ==
  /\ rq[r].pc = "idle"
  /\ Len(clients) < MaxClients
  /\ clients' = Append(clients, Client(Len(clients) + 1, organization_id))
  /\ rq' = [rq EXCEPT ![r] = [RqIdle EXCEPT !.pc = "create_assignment",
                                            !.client_id = Len(clients) + 1]]
  /\ UNCHANGED <<client_assignments, response>>
  /\ UNCHANGED <<syncVars, xeroVars, call>>

\* api/v1/clients.py 43-64: the initial, unassigned assignment is committed
create_client_assignment(r) ==
  /\ rq[r].pc = "create_assignment"
  /\ Len(client_assignments) < MaxAssignments
  /\ client_assignments' =
       Append(client_assignments,
              ClientAssignment(Len(client_assignments) + 1,
                               clients[rq[r].client_id].organization_id,
                               rq[r].client_id, None))
  /\ rq' = [rq EXCEPT ![r] = RqIdle]
  /\ response' = Created
  /\ UNCHANGED clients
  /\ UNCHANGED <<syncVars, xeroVars, call>>

\* api/v1/client_assignments.py 38-65: client and user checks, then the query
\* for the active assignment of the client
assign_client_load(r, client_id, user_id) ==
  /\ rq[r].pc = "idle"
  /\ IF client_id \notin DOMAIN clients
       THEN /\ response' = Err("Client not found")
            /\ UNCHANGED rq
       ELSE IF user_id # None /\ ~UserExists(user_id)
       THEN /\ response' = Err("User not found")
            /\ UNCHANGED rq
       ELSE IF user_id # None /\ UserOrg(user_id) # clients[client_id].organization_id
       THEN /\ response' = Err("User and client must belong to the same organization")
            /\ UNCHANGED rq
       ELSE /\ \E existing \in FirstActive(client_id) :
                 rq' = [rq EXCEPT ![r] =
                          [RqIdle EXCEPT
                             !.pc = IF existing = 0 THEN "assign_insert"
                                                    ELSE "assign_unassign",
                             !.client_id = client_id,
                             !.user_id = user_id,
                             !.existing = existing]]
            /\ UNCHANGED response
  /\ UNCHANGED <<clients, client_assignments>>
  /\ UNCHANGED <<syncVars, xeroVars, call>>

\* api/v1/client_assignments.py 67-85: the loaded assignment is closed and
\* committed
assign_client_unassign(r) ==
  /\ rq[r].pc = "assign_unassign"
  /\ client_assignments' =
       [client_assignments EXCEPT ![rq[r].existing].unassigned_at = now]
  /\ rq' = [rq EXCEPT ![r].pc = "assign_insert"]
  /\ UNCHANGED <<clients, response>>
  /\ UNCHANGED <<syncVars, xeroVars, call>>

\* api/v1/client_assignments.py 87-108: the new assignment is committed
assign_client_insert(r) ==
  /\ rq[r].pc = "assign_insert"
  /\ Len(client_assignments) < MaxAssignments
  /\ client_assignments' =
       Append(client_assignments,
              ClientAssignment(Len(client_assignments) + 1,
                               clients[rq[r].client_id].organization_id,
                               rq[r].client_id, rq[r].user_id))
  /\ rq' = [rq EXCEPT ![r] = RqIdle]
  /\ response' = Created
  /\ UNCHANGED clients
  /\ UNCHANGED <<syncVars, xeroVars, call>>

\* api/v1/client_assignments.py 122-131: the user check of a bulk request
bulk_assign_clients_start(r, client_ids, user_id) ==
  /\ rq[r].pc = "idle"
  /\ IF user_id # None /\ ~UserExists(user_id)
       THEN /\ response' = Err("User not found")
            /\ UNCHANGED rq
       ELSE /\ rq' = [rq EXCEPT ![r] = [RqIdle EXCEPT !.pc = "bulk_load",
                                                      !.client_ids = client_ids,
                                                      !.user_id = user_id]]
            /\ UNCHANGED response
  /\ UNCHANGED <<clients, client_assignments>>
  /\ UNCHANGED <<syncVars, xeroVars, call>>

\* api/v1/client_assignments.py 133-143, 181: the next client of the list and
\* its active assignment are queried; an unknown client is skipped; after the
\* last client the results are returned
bulk_assign_clients_load(r) ==
  /\ rq[r].pc = "bulk_load"
  /\ IF rq[r].client_ids = <<>>
       THEN /\ rq' = [rq EXCEPT ![r] = RqIdle]
            /\ response' = Created
       ELSE IF Head(rq[r].client_ids) \notin DOMAIN clients
       THEN /\ rq' = [rq EXCEPT ![r].client_ids = Tail(rq[r].client_ids)]
            /\ UNCHANGED response
       ELSE /\ \E existing \in FirstActive(Head(rq[r].client_ids)) :
                 rq' = [rq EXCEPT ![r].pc = "bulk_commit",
                                  ![r].client_id = Head(rq[r].client_ids),
                                  ![r].existing = existing]
            /\ UNCHANGED response
  /\ UNCHANGED <<clients, client_assignments>>
  /\ UNCHANGED <<syncVars, xeroVars, call>>

\* api/v1/client_assignments.py 145-179: the loaded assignment is closed and
\* the new one added, both in one commit
bulk_assign_clients_commit(r) ==
  /\ rq[r].pc = "bulk_commit"
  /\ Len(client_assignments) < MaxAssignments
  /\ LET closed ==
           IF rq[r].existing = 0 THEN client_assignments
           ELSE [client_assignments EXCEPT ![rq[r].existing].unassigned_at = now]
     IN client_assignments' =
          Append(closed,
                 ClientAssignment(Len(client_assignments) + 1,
                                  clients[rq[r].client_id].organization_id,
                                  rq[r].client_id, rq[r].user_id))
  /\ rq' = [rq EXCEPT ![r].pc = "bulk_load",
                      ![r].client_ids = Tail(rq[r].client_ids),
                      ![r].client_id = 0,
                      ![r].existing = 0]
  /\ UNCHANGED <<clients, response>>
  /\ UNCHANGED <<syncVars, xeroVars, call>>

\* api/v1/client_assignments.py 250-259: the active assignment with this id
unassign_client_load(r, assignment_id) ==
  /\ rq[r].pc = "idle"
  /\ IF /\ assignment_id \in DOMAIN client_assignments
        /\ client_assignments[assignment_id].unassigned_at = NoTime
       THEN /\ rq' = [rq EXCEPT ![r] = [RqIdle EXCEPT !.pc = "unassign_commit",
                                                      !.existing = assignment_id]]
            /\ UNCHANGED response
       ELSE /\ response' = Err("Assignment not found")
            /\ UNCHANGED rq
  /\ UNCHANGED <<clients, client_assignments>>
  /\ UNCHANGED <<syncVars, xeroVars, call>>

\* api/v1/client_assignments.py 261-277: the assignment is closed and committed
unassign_client_commit(r) ==
  /\ rq[r].pc = "unassign_commit"
  /\ client_assignments' =
       [client_assignments EXCEPT ![rq[r].existing].unassigned_at = now]
  /\ rq' = [rq EXCEPT ![r] = RqIdle]
  /\ response' = NoContent
  /\ UNCHANGED clients
  /\ UNCHANGED <<syncVars, xeroVars, call>>

\* Client and assignment requests of two workers on empty tables.
InitAssignments == Init

NextAssignments ==
  \/ \E r \in Requests : create_client_insert(r, "o1")
  \/ \E r \in Requests : create_client_assignment(r)
  \/ \E r \in Requests, client_id \in AssignClientIds, user_id \in AssignUserIds :
       assign_client_load(r, client_id, user_id)
  \/ \E r \in Requests : assign_client_unassign(r)
  \/ \E r \in Requests : assign_client_insert(r)
  \/ \E r \in Requests, client_ids \in BulkLists, user_id \in BulkUserIds :
       bulk_assign_clients_start(r, client_ids, user_id)
  \/ \E r \in Requests : bulk_assign_clients_load(r)
  \/ \E r \in Requests : bulk_assign_clients_commit(r)
  \/ \E r \in Requests, assignment_id \in 1..MaxAssignments :
       unassign_client_load(r, assignment_id)
  \/ \E r \in Requests : unassign_client_commit(r)

SpecAssignments == InitAssignments /\ [][NextAssignments]_vars

\* ------------------------------------------------------------------ claims
\* the Connection row a get_valid_access_token call works on, as stored
StoredRow(p) == xero_connections[tm[p].connection.id]

\* C1: two concurrent get_valid_access_token calls for one organization never
\* both have a refresh request in flight carrying the same refresh token:
\* exactly one refresh is sent, no refresh token goes to the provider twice.
C1_SingleRefresh ==
  \A p \in Procs, q \in Procs :
    ( /\ p # q
      /\ tm[p].pc = "await_refresh"
      /\ tm[q].pc = "await_refresh"
      /\ tm[p].organization_id = tm[q].organization_id )
    => tm[p].refresh_token # tm[q].refresh_token

\* C2: of two concurrent callbacks carrying the same state value only one gets
\* past state consumption; the one that comes second, while the first is
\* still in progress, fails with "Invalid or expired state".
C2_OneWinner ==
  /\ [](\A c \in Callbacks, d \in Callbacks :
          (c # d /\ cb[c].pc # "idle" /\ cb[d].pc # "idle")
          => cb[c].state # cb[d].state)
  /\ [][\A c \in Callbacks, s \in 1..MaxStates :
          ( /\ xero_callback_consume(c, "code", s)
            /\ \E d \in Callbacks : d # c /\ cb[d].pc # "idle" /\ cb[d].state = s )
          => (response' = InvalidState(s) /\ cb'[c].pc = "idle")]_vars

\* C2 witness: one callback is past consumption with a state, and the request
\* that finished last was refused that same state.
C2_Witness ==
  \E c \in Callbacks :
    cb[c].pc # "idle" /\ response = InvalidState(cb[c].state)

\* C3: a state value is accepted at most once; once a callback has consumed
\* it, every later callback with that value fails with "Invalid or expired
\* state", whatever became of the first callback.
C3_StateSingleUse ==
  /\ [](\A s \in 1..MaxStates : accepted[s] <= 1)
  /\ [][\A c \in Callbacks, s \in 1..MaxStates :
          (xero_callback_consume(c, "code", s) /\ accepted[s] >= 1)
          => (response' = InvalidState(s) /\ cb'[c].pc = "idle"
              /\ accepted' = accepted)]_vars

\* C3 witness: a state was accepted once, the callback that consumed it has
\* ended, and a later callback carrying it was refused.
C3_Witness ==
  \E s \in 1..MaxStates :
    /\ accepted[s] = 1
    /\ response = InvalidState(s)
    /\ \A c \in Callbacks : cb[c].pc = "idle"

\* C7: at most one XeroConnection row per organization.
C7_OneConnectionPerOrg ==
  \A o \in Orgs : Cardinality(ConnectionsOf(o)) <= 1

\* C8: revoked is terminal: a get_valid_access_token call that finds the
\* Connection revoked sends no refresh request.
C8_RevokedTerminal ==
  \A p \in Procs :
    tm[p].pc = "await_refresh" => tm[p].connection.sync_status # "revoked"

\* C9: a successful refresh returns the new access token and leaves the stored
\* Connection with the encrypted new access and refresh tokens, expires_at =
\* now + expires_in and sync_status connected; the old refresh token is gone.
C9_RefreshPersisted ==
  [][\A p \in Procs :
       get_valid_access_token_refreshed(p) =>
         LET row == xero_connections'[tm[p].connection.id] IN
         /\ response' = Ok(tm[p].resp.access_token)
         /\ decrypt_token(row.access_token_encrypted) = tm[p].resp.access_token
         /\ decrypt_token(row.refresh_token_encrypted) = tm[p].resp.refresh_token
         /\ decrypt_token(row.refresh_token_encrypted) # tm[p].refresh_token
         /\ row.expires_at = now + tm[p].resp.expires_in
         /\ row.sync_status = "connected"]_vars

\* C10: a rejected refresh stores sync_status revoked, raises, and leaves the
\* stored tokens and expires_at as they were.
C10_RefreshRejected ==
  [][\A p \in Procs :
       get_valid_access_token_failed(p) =>
         /\ response' = Err("Failed to refresh Xero token")
         /\ xero_connections'[tm[p].connection.id] =
              [StoredRow(p) EXCEPT !.sync_status = "revoked"]]_vars

\* the stored row of organization o1 for a provider identifier, if any
RowOf(table, id) == {r \in table : r.organization_id = "o1" /\ r.xero_transaction_id = id}

\* C4: running the sync twice with the same batch (rules unchanged) leaves
\* the same rows with the same business fields as running it once, and the
\* second run inserts no row.
C4_IdempotentSync ==
  \A batch \in Batches :
    LET once == SyncResult(transactions, "o1", "c1", batch) IN
    /\ SyncResult(once, "o1", "c1", batch) = once
    /\ SyncInserted(once, "o1", "c1", batch) = 0

\* C4 witness: the table holds rows that a sync wrote, and a batch that
\* updates one of them and would have inserted another is run again.
C4_Witness ==
  /\ response = Ok(NoToken)
  /\ \E batch \in Batches :
       /\ Len(batch) = 2
       /\ batch[1].BankTransactionID = "x1" /\ batch[2].BankTransactionID = "x2"
       /\ RowOf(transactions, "x1") # {} /\ RowOf(transactions, "x2") # {}
       /\ SyncResult(transactions, "o1", "c1", batch) = transactions

\* C5: document_received, once true, stays true through every sync call.
C5_ReceivedMonotone ==
  [][\A r \in transactions :
       r.document_received =>
         \E n \in transactions' :
           /\ n.organization_id = r.organization_id
           /\ n.xero_transaction_id = r.xero_transaction_id
           /\ n.document_received]_vars

\* C5 witness: a row with document_received true whose last sync record had
\* no attachment (document_required was recomputed to true).
C5_Witness ==
  \E r \in transactions :
    r.document_received /\ r.document_required /\ ~r.excluded

\* C6: every stored Transaction with excluded = true has document_required =
\* false.
C6_ExcludedNotRequired ==
  \A r \in transactions : r.excluded => ~r.document_required

\* the Connection row of organization o1 (the refresh specification has one
\* callback process, hence at most one row)
TheRow == xero_connections[CHOOSE i \in ConnectionsOf("o1") : TRUE]

\* C11: a get_valid_access_token call that finds expires_at more than the
\* 2-minute margin ahead returns the decrypted stored access token, sends
\* nothing to the provider and leaves the Connection row as it is; one that
\* finds expires_at exactly the margin ahead, or less, posts a refresh request
\* with the stored refresh token.
C11_FastPathBoundary ==
  [][\A p \in Procs :
       (get_valid_access_token_load(p, "o1") /\ ConnectionsOf("o1") # {}) =>
         IF TheRow.expires_at > now + RefreshMargin
         THEN /\ response' = Ok(TheRow.access_token_encrypted.body)
              /\ UNCHANGED <<tm, provider, xero_connections>>
         ELSE /\ tm'[p].pc = "await_refresh"
              /\ tm'[p].refresh_token = TheRow.refresh_token_encrypted.body
              /\ UNCHANGED xero_connections]_vars

\* C11 witness: a call is on the refresh path with a Connection that expires
\* exactly at the margin, after another call was served the stored token.
C11_Witness ==
  /\ response.kind = "ok" /\ response.token # NoToken
  /\ \E p \in Procs : /\ tm[p].pc = "await_refresh"
                      /\ tm[p].connection.expires_at = now + RefreshMargin
                      /\ tm[p].resp.status = 0

\* C12: a provider outage (the request fails, or the provider answers 5xx)
\* during a refresh or a transaction fetch leaves every Connection's
\* sync_status as it was.
C12_OutageKeepsStatus ==
  [][(\/ \E p \in Procs : /\ tm[p].pc = "await_refresh"
                          /\ tm[p].resp.status \in {0, 503}
                          /\ tm'[p].pc = "idle"
      \/ \E status_code \in {503} : fetch_bank_transactions(status_code))
     => \A i \in DOMAIN xero_connections :
          xero_connections'[i].sync_status = xero_connections[i].sync_status]_vars

\* everything a session holds: the loaded rows and the rows pending insert
SessionRows(session) ==
  session.rows \cup {session.pending[i] : i \in DOMAIN session.pending}

\* C13: an upsert_xero_transactions call is all-or-nothing: when the commit
\* fails the stored Transactions are those before the call, when it succeeds
\* every insert and update of the call is stored.
C13_AllOrNothing ==
  \A batch \in Batches :
    LET session == SyncSession(transactions, "o1", "c1", batch)
        stored == db_commit(transactions, session)
    IN IF CommitSucceeds(session)
       THEN stored = SessionRows(session)
       ELSE stored = transactions

\* C13 witness: a sync call has just failed on a table that holds rows, and
\* there is a failing batch some of whose statements run before the failure.
C13_Witness ==
  /\ response = Err("IntegrityError")
  /\ transactions # {}
  /\ \E batch \in Batches :
       LET flushed == Flush(transactions, SyncSession(transactions, "o1", "c1", batch))
       IN ~flushed.ok /\ flushed.table # transactions

\* a record whose identifier is absent or empty
NoId(tx) == tx.BankTransactionID = None \/ tx.BankTransactionID = ""
\* a record that has an identifier but lacks the Date or the Total
Malformed(tx) == ~NoId(tx) /\ (tx.Date = None \/ tx.Total = None)
WellFormed(batch) == SelectSeq(batch, LAMBDA tx : ~Malformed(tx))

\* C14: a record with an identifier but no Date or Total is skipped on its
\* own: a sync call whose other records can be committed stores exactly what
\* it would store without the malformed record, and does not fail.
C14_MalformedSkipped ==
  [][\A batch \in Batches :
       (/\ WellFormed(batch) # batch
        /\ CommitSucceeds(SyncSession(transactions, "o1", "c1", WellFormed(batch)))
        /\ upsert_xero_transactions("o1", "c1", batch))
       => /\ response'.kind # "error"
          /\ transactions' = SyncResult(transactions, "o1", "c1", WellFormed(batch))]_vars

\* the records of a batch that carry an identifier
WithId(batch) == SelectSeq(batch, LAMBDA tx : ~NoId(tx))
\* the batch with the empty string where the identifier is absent
EmptyId(batch) ==
  [i \in DOMAIN batch |->
     IF batch[i].BankTransactionID = None
     THEN [batch[i] EXCEPT !.BankTransactionID = ""] ELSE batch[i]]

\* C15: a record without identifier (absent or empty) creates and modifies no
\* row, and the records before and after it are processed as if it were not
\* in the batch: the sync stores what it stores for the batch without it.
C15_NoIdSkipped ==
  \A batch \in Batches :
    WithId(batch) # batch =>
      LET without == SyncResult(transactions, "o1", "c1", WithId(batch)) IN
      /\ SyncResult(transactions, "o1", "c1", batch) = without
      /\ SyncResult(transactions, "o1", "c1", EmptyId(batch)) = without
      /\ \A r \in without : r.xero_transaction_id \notin {None, ""}

\* C15 witness: a sync has stored rows, and a batch that has a record without
\* identifier ahead of a record with one changes the table.
C15_Witness ==
  /\ response = Ok(NoToken)
  /\ transactions # {}
  /\ \E batch \in Batches :
       /\ Len(batch) >= 2
       /\ NoId(batch[1]) /\ ~NoId(batch[2])
       /\ SyncResult(transactions, "o1", "c1", batch) # transactions

\* C16: the sync never deletes: whatever the batch, every stored
\* (organization, identifier) key is still stored afterwards, and a stored
\* row whose identifier the batch does not name is left exactly as it was.
C16_NeverDeletes ==
  \A batch \in Batches :
    LET stored == SyncResult(transactions, "o1", "c1", batch) IN
    \A r \in transactions :
      /\ \E q \in stored : /\ q.organization_id = r.organization_id
                           /\ q.xero_transaction_id = r.xero_transaction_id
      /\ (\A i \in DOMAIN batch : batch[i].BankTransactionID # r.xero_transaction_id)
           => r \in stored

\* C16 witness: two rows are stored and a batch naming only one of them
\* changes the table.
C16_Witness ==
  /\ Cardinality(transactions) >= 2
  /\ \E batch \in Batches :
       /\ Len(batch) = 1
       /\ SyncResult(transactions, "o1", "c1", batch) # transactions

\* the rows an organization owns
RowsOf(table, org) == {r \in table : r.organization_id = org}

\* C17: the provider identifier is unique per organization only: a sync into
\* one organization of a well-formed record whose identifier is stored for
\* another organization succeeds, stores a row of its own for the syncing
\* organization and leaves the other organization's rows unchanged.
C17_UniquePerOrganization ==
  [][\A org \in Orgs, batch \in SingleBatches :
       (/\ ~NoId(batch[1]) /\ ~Malformed(batch[1])
        /\ \E r \in transactions :
             /\ r.organization_id # org
             /\ r.xero_transaction_id = batch[1].BankTransactionID
        /\ \A r \in RowsOf(transactions, org) :
             r.xero_transaction_id # batch[1].BankTransactionID
        /\ upsert_xero_transactions(org, ClientOf(org), batch))
       => /\ response'.kind # "error"
          /\ \E r \in RowsOf(transactions', org) :
               r.xero_transaction_id = batch[1].BankTransactionID
          /\ \A other \in Orgs \ {org} :
               RowsOf(transactions', other) = RowsOf(transactions, other)]_vars

\* the field of the transaction a rule is tested on (engine.py 20-25)
SelectedField(transaction, rule) ==
  IF rule.rule_type = "supplier_name" THEN transaction.supplier_name
  ELSE transaction.description
\* positions of the enabled rules whose selected field matches
Matching(transaction, rules) ==
  {i \in DOMAIN rules :
     /\ rules[i].enabled
     /\ rules[i].rule_type \in {"supplier_name", "description"}
     /\ matches(rules[i], SelectedField(transaction, rules[i]))}

\* C18: first match wins: when some enabled rule matches, the call returns
\* true and the transaction gets excluded = true, document_required = false
\* and the reason of the earliest matching rule ("Auto-excluded" when that
\* reason is empty), whatever rules follow; when none matches the call
\* returns false and the transaction is unchanged.
C18_FirstMatchWins ==
  (call.fn = "apply_exclusion_rules" /\ call.done) =>
    LET hits == Matching(call.transaction, call.rules) IN
    IF hits = {}
    THEN ~call.returned /\ call.after = call.transaction
    ELSE LET first == CHOOSE i \in hits : \A j \in hits : i <= j
             reason == call.rules[first].reason
         IN /\ call.returned
            /\ call.after = [call.transaction EXCEPT
                 !.excluded = TRUE,
                 !.document_required = FALSE,
                 !.exclusion_reason =
                    IF reason = Null \/ reason = Empty THEN AutoExcluded ELSE reason]

\* C19: a disabled rule never affects a transaction: the call returns the
\* same value and leaves the same fields as a call on the list without its
\* disabled rules.
C19_DisabledNeverMatch ==
  (call.fn = "apply_exclusion_rules" /\ call.done) =>
    LET enabled == SelectSeq(call.rules, LAMBDA rule : rule.enabled)
        result == apply_exclusion_rules(call.transaction, enabled)
    IN /\ call.returned = result.excluded
       /\ call.after = result.transaction

\* C19 witness: a call returned false on a list holding a disabled rule whose
\* pattern is contained in the supplier name.
C19_Witness ==
  /\ call.fn = "apply_exclusion_rules" /\ call.done /\ ~call.returned
  /\ \E i \in DOMAIN call.rules :
       /\ ~call.rules[i].enabled
       /\ call.rules[i].rule_type = "supplier_name"
       /\ call.transaction.supplier_name # Null
       /\ Contains(Lower(call.transaction.supplier_name), Lower(call.rules[i].pattern))

\* C20: decrypt_token(encrypt_token(s)) = s for every plaintext s, and
\* decrypt_token on a ciphertext that encrypt_token did not produce fails
\* with an error, it never returns a plaintext.
C20_RoundTripTamper ==
  (call.fn = "token_crypto" /\ call.stage = "decrypted") =>
    IF call.stored = call.produced
    THEN call.result = call.plaintext
    ELSE call.result = CryptoError

\* no entry of the state store can still be used for this state value: none
\* was stored, it was consumed, or it is past its expires_at
Unusable(state) ==
  \A e \in oauth_states : e.state = state => now > e.expires_at

\* C21: a callback whose state is absent, expired (past its 15-minute expiry)
\* or already consumed fails with "Invalid or expired state" before any
\* provider request is made (no code exchange is posted, the provider issues
\* nothing) and neither creates nor modifies any Connection.
C21_InvalidStateNoEffect ==
  [][\A c \in Callbacks, s \in 1..MaxStates :
       (xero_callback_consume(c, "code", s) /\ Unusable(s))
       => /\ response' = InvalidState(s)
          /\ cb' = cb
          /\ provider' = provider
          /\ xero_connections' = xero_connections]_vars

\* C21 witness: a Connection is stored, and a state that was issued and never
\* accepted has just been refused after its expiry.
C21_Witness ==
  /\ xero_connections # <<>>
  /\ now > StateTTL
  /\ \E s \in 1..MaxStates :
       /\ s <= state_counter
       /\ accepted[s] = 0
       /\ response = InvalidState(s)
       /\ \A c \in Callbacks : cb[c].pc = "idle"

\* C22: when the token endpoint refuses the code exchange the callback fails
\* with "Failed to exchange token", and no step of that callback (state
\* consumption, the exchange itself) creates or changes a Connection: tokens,
\* expires_at, tenant and sync_status of every row, or the absence of a row,
\* are as before; the provider has issued nothing.
C22_ExchangeFailureNoEffect ==
  [][\A c \in Callbacks :
       /\ (cb[c].pc = "exchange" /\ cb'[c].pc = "idle")
          => /\ response' = Err("Failed to exchange token")
             /\ xero_connections' = xero_connections
             /\ provider' = provider
       /\ (cb[c].pc = "idle" /\ cb'[c].pc = "exchange")
          => xero_connections' = xero_connections]_vars

\* C22 witness: the code exchange of a callback has just been refused while a
\* connected Connection is stored.
C22_Witness ==
  /\ response = Err("Failed to exchange token")
  /\ \E i \in DOMAIN xero_connections : xero_connections[i].sync_status = "connected"
  /\ \A c \in Callbacks : cb[c].pc = "idle"

\* the row a committing callback writes: the one it loaded, or the one it
\* appends
WrittenRow(c) ==
  IF cb[c].loaded = NoRow THEN Len(xero_connections) + 1 ELSE cb[c].loaded.id

StoredWith(state) == CHOOSE e \in oauth_states : e.state = state

\* what C25 says of the organization: connect_xero stores the actor and the
\* actor's organization with the state, the callback that consumes the state
\* works for that organization and that user, and its commit writes one row,
\* of that organization, leaving every other row as it is
BoundToState ==
  /\ \A u \in Users \cup {Colleague} :
       connect_xero(u) =>
         \E e \in oauth_states' \ oauth_states :
           e.user_id = u.id /\ e.organization_id = u.organization_id
  /\ \A c \in Callbacks, s \in 1..MaxStates :
       (xero_callback_consume(c, "code", s) /\ cb'[c].pc = "exchange") =>
         /\ cb'[c].organization_id = StoredWith(s).organization_id
         /\ cb'[c].user_id = StoredWith(s).user_id
  /\ \A c \in Callbacks :
       (cb[c].pc # "idle" /\ cb'[c].pc # "idle") =>
         /\ cb'[c].organization_id = cb[c].organization_id
         /\ cb'[c].user_id = cb[c].user_id
  /\ \A c \in Callbacks :
       xero_callback_commit(c) =>
         /\ xero_connections'[WrittenRow(c)].organization_id = cb[c].organization_id
         /\ \A i \in DOMAIN xero_connections :
              IF i = WrittenRow(c)
              THEN xero_connections[i].organization_id = cb[c].organization_id
              ELSE xero_connections'[i] = xero_connections[i]

Uncompilable(rule) ==
  /\ rule.match_type = "regex"
  /\ ReError(rule.pattern) \/ ReOverflow(rule.pattern)

\* C26: a regex rule with a malformed pattern never raises and counts as a
\* non-match: the call returns, and it returns the value and leaves the
\* fields that a call on the list without these rules does, so a later
\* enabled matching rule still excludes the transaction.
C26_MalformedRegexContained ==
  (call.fn = "apply_exclusion_rules" /\ call.done) =>
    LET compilable == SelectSeq(call.rules, LAMBDA rule : ~Uncompilable(rule))
        result == apply_exclusion_rules(call.transaction, compilable)
    IN /\ ~call.raised
       /\ call.returned = result.excluded
       /\ call.after = result.transaction

\* C27: exclusion by sync is sticky: a stored Transaction with excluded =
\* true has a non-empty exclusion_reason, and every upsert_xero_transactions
\* call leaves it stored with excluded = true and a non-empty reason,
\* whatever became of the rule that matched and whatever the remote record
\* now says.
C27_ExclusionSticky ==
  /\ [](\A r \in transactions : r.excluded => ~Falsy(r.exclusion_reason))
  /\ [][\A r \in transactions :
          r.excluded =>
            \E n \in transactions' :
              /\ n.organization_id = r.organization_id
              /\ n.xero_transaction_id = r.xero_transaction_id
              /\ n.excluded
              /\ ~Falsy(n.exclusion_reason)]_vars

\* C27 witness: a row excluded for its supplier name is still excluded after
\* a sync gave it no supplier name, and no rule is left.
C27_Witness ==
  /\ response = Ok(NoToken)
  /\ exclusion_rules = <<>>
  /\ \E r \in transactions :
       /\ r.excluded
       /\ r.exclusion_reason = <<"r">>
       /\ r.supplier_name = Null

\* batches that name one identifier twice, in records that are complete
Twice(batch) ==
  /\ Len(batch) = 2
  /\ ~NoId(batch[1]) /\ ~Malformed(batch[1]) /\ ~Malformed(batch[2])
  /\ batch[1].BankTransactionID = batch[2].BankTransactionID

\* C28: when a batch holds the same new identifier twice, the call succeeds
\* and leaves exactly one Transaction for that identifier, the second record
\* applied as an update of the row the first created: the table is as after
\* syncing the first record and then the second.
C28_DuplicateInBatch ==
  [][\A batch \in Batches :
       ( /\ Twice(batch)
         /\ RowOf(transactions, batch[1].BankTransactionID) = {}
         /\ upsert_xero_transactions("o1", "c1", batch) )
       => /\ response'.kind # "error"
          /\ Cardinality(RowOf(transactions', batch[1].BankTransactionID)) = 1
          /\ transactions' =
               SyncResult(SyncResult(transactions, "o1", "c1", <<batch[1]>>),
                          "o1", "c1", <<batch[2]>>)]_vars

C30_OneActiveAssignment ==
  \A client_id \in DOMAIN clients :
    Cardinality({i \in DOMAIN client_assignments :
                   /\ client_assignments[i].client_id = client_id
                   /\ client_assignments[i].unassigned_at = NoTime}) <= 1

====
